---- MODULE Spec2Model ----
(***************************************************************************)
(* A model of MastodonTagFinder.py: stream workers read the public feeds   *)
(* of servers line by line, every update payload is deduplicated and       *)
(* routed by its tags to the users who follow them, and each user's sender *)
(* issues one search call per routed post.                                 *)
(*                                                                         *)
(* Byte strings are sequences of one-character strings; an index i of the  *)
(* Python code (0-based) is position i+1 of the sequence.                  *)
(***************************************************************************)
EXTENDS Integers, Sequences, FiniteSets, TLC

(***************************************************************************)
(* Python values                                                           *)
(***************************************************************************)

\* None, and a value that is not None, as sequences of length 0 and 1.
None == <<>>

Some(x) == <<x>>

Val(o) == o[1]

SeqToSet(s) == {s[i] : i \in 1..Len(s)}

\* A slice index as Python normalises it against a length n.
SliceIndex(i, n) ==
    IF i < 0 THEN (IF i + n < 0 THEN 0 ELSE i + n)
    ELSE IF i > n THEN n ELSE i

\* data[a:b]
Slice(data, a, b) ==
    LET n == Len(data)
        lo == SliceIndex(a, n)
        hi == SliceIndex(b, n)
    IN  IF hi <= lo THEN <<>> ELSE SubSeq(data, lo + 1, hi)

\* Whether sub occurs in data at index i.
MatchAt(data, sub, i) == \A k \in 1..Len(sub) : data[i + k] = sub[k]

\* The lowest index from i to last where sub occurs in data, or -1.
RECURSIVE FindFrom(_, _, _, _)
FindFrom(data, sub, i, last) ==
    IF i > last THEN -1
    ELSE IF MatchAt(data, sub, i) THEN i
    ELSE FindFrom(data, sub, i + 1, last)

\* data.find(sub, start, end): the lowest index in data[start:end] where sub
\* occurs, or -1.
Find(data, sub, start, end) ==
    LET n == Len(data)
    IN  FindFrom(data, sub, SliceIndex(start, n), SliceIndex(end, n) - Len(sub))

\* str.lower() on the letters the payloads use.
LowerChar(c) ==
    CASE c = "A" -> "a"
      [] c = "B" -> "b"
      [] OTHER -> c

Lower(s) == [i \in 1..Len(s) |-> LowerChar(s[i])]

(***************************************************************************)
(* Literals of the program                                                 *)
(***************************************************************************)

URI_LABEL == <<"\"","u","r","i","\"",":">>

TAGS_LABEL == <<"\"","t","a","g","s","\"",":">>

NAME_LABEL == <<"\"","n","a","m","e","\"",":">>

NULL_LITERAL == <<"n","u","l","l">>

EMPTY_LIST == <<"[","]">>

EVENT_UPDATE == <<"e","v","e","n","t",":"," ","u","p","d","a","t","e","\n">>

DATA_PREFIX == <<"d","a","t","a",":">>

(***************************************************************************)
(* The field extractor                                                     *)
(***************************************************************************)

\* getfield without its test for the null literal.
getfield_no_null(data, field, offset) ==
    LET n == Len(data)
        field_start == Find(data, field, offset, n)
        after == field_start + Len(field)
        value_start == Find(data, <<"\"">>, after, n)
        value_end == Find(data, <<"\"">>, value_start + 1, n)
    IN  IF field_start = -1 THEN <<None, None>>
        ELSE IF value_start = -1 THEN <<None, None>>
        ELSE IF value_end = -1 THEN <<None, None>>
        ELSE <<Some(Slice(data, value_start + 1, value_end)), Some(value_end + 1)>>

\* getfield: <<value, next offset>>, or <<None, None>>.
getfield(data, field, offset) ==
    LET n == Len(data)
        field_start == Find(data, field, offset, n)
        after == field_start + Len(field)
        value_start == Find(data, <<"\"">>, after, n)
        value_end == Find(data, <<"\"">>, value_start + 1, n)
    IN  IF field_start = -1 THEN <<None, None>>
        ELSE IF Find(data, NULL_LITERAL, after, after + 4) # -1 THEN <<None, None>>
        ELSE IF value_start = -1 THEN <<None, None>>
        ELSE IF value_end = -1 THEN <<None, None>>
        ELSE <<Some(Slice(data, value_start + 1, value_end)), Some(value_end + 1)>>

\* The entry loop of getlist from the scan pointer ptr: the items collected, and
\* whether the loop comes back to a scan pointer it has already had (it then
\* never ends).
RECURSIVE getlist_loop(_, _, _, _, _)
getlist_loop(data, list_end, ptr, items, visited) ==
    LET n == Len(data)
        entry_start == Find(data, <<"{">>, ptr, list_end)
        entry_end == Find(data, <<"}">>, entry_start + 1, list_end)
        tagname == getfield(Slice(data, entry_start, entry_end), NAME_LABEL, 0)[1]
    IN  IF entry_start = -1 THEN [hangs |-> FALSE, items |-> items]
        ELSE IF (entry_end + 1) \in visited
             THEN [hangs |-> TRUE, items |-> Append(items, tagname)]
        ELSE getlist_loop(data, list_end, entry_end + 1, Append(items, tagname),
                          visited \cup {entry_end + 1})

\* getlist: the list of the entries' names (None for an entry without one).
getlist(data, field) ==
    LET n == Len(data)
        field_start == Find(data, field, 0, n)
        after == field_start + Len(field)
        list_start == Find(data, <<"[">>, after, n)
        list_end == Find(data, <<"]">>, list_start + 1, n)
    IN  IF field_start = -1 THEN [hangs |-> FALSE, items |-> <<>>]
        ELSE IF Find(data, EMPTY_LIST, after, after + 3) # -1
             THEN [hangs |-> FALSE, items |-> <<>>]
        ELSE getlist_loop(data, list_end, list_start + 1, <<>>, {list_start + 1})

(***************************************************************************)
(* Bounds and inputs of the model                                          *)
(***************************************************************************)

\* Lines a streaming server sends: the update marker, a heartbeat, and data
\* lines whose payloads have distinct uris, a null uri, tags in both letter
\* cases, an empty tag list, and a line cut off inside its tag list.
THUMP == <<":","t","h","u","m","p","\n">>

Payload1 ==
    <<" ","{","\"","u","r","i","\"",":","\"","h","t","t","p","s",":","/","/","s","/","1","\"",",","\"","t","a","g","s","\"",":","[","{","\"","n","a","m","e","\"",":","\"","b","\"","}","]","}","\n">>

Payload2 ==
    <<" ","{","\"","u","r","i","\"",":","\"","h","t","t","p","s",":","/","/","s","/","2","\"",",","\"","t","a","g","s","\"",":","[","{","\"","n","a","m","e","\"",":","\"","A","\"","}","]","}","\n">>

Payload3 ==
    <<" ","{","\"","u","r","i","\"",":","\"","h","t","t","p","s",":","/","/","t","/","3","\"",",","\"","t","a","g","s","\"",":","[","]","}","\n">>

Payload4 ==
    <<" ","{","\"","u","r","i","\"",":","\"","h","t","t","p","s",":","/","/","t","/","4","\"",",","\"","t","a","g","s","\"",":","[","{","\"","n","a","m","e","\"",":","\"","a","\"","}",",","{","\"","n","a","m","e","\"",":","\"","b","\"","}","]","}","\n">>

Payload5 ==
    <<" ","{","\"","u","r","i","\"",":","n","u","l","l",",","\"","t","a","g","s","\"",":","[","{","\"","n","a","m","e","\"",":","\"","a","\"","}","]","}","\n">>

Payload6 ==
    <<" ","{","\"","u","r","i","\"",":","\"","h","t","t","p","s",":","/","/","t","/","6","\"",",","\"","t","a","g","s","\"",":","[","{","\"","n","a","m","e","\"",":","\"","a","\"">>

Payloads == {Payload1, Payload2, Payload3, Payload4, Payload5, Payload6}

Lines == {EVENT_UPDATE, THUMP} \cup {DATA_PREFIX \o p : p \in Payloads}

\* First lines of a home server's answer to the followed-tags call: nothing,
\* tag lists, and an error body.
Tags_A == <<"[","{","\"","n","a","m","e","\"",":","\"","A","\"","}","]","\n">>

Tags_ab ==
    <<"[","{","\"","n","a","m","e","\"",":","\"","a","\"","}",",","{","\"","n","a","m","e","\"",":","\"","b","\"","}","]","\n">>

Tags_error == <<"{","\"","e","r","r","o","r","\"",":","\"","x","\"","}","\n">>

TagResponses == {<<>>, Tags_A, Tags_ab, Tags_error}

(***************************************************************************)
(* State                                                                   *)
(***************************************************************************)

\* The length of the dedup history, scaled down from the program's 1000.
DUPLICATE_HISTORY_LENGTH == 2

VARIABLES
    args,         \* the run: the numbers of users and of servers the two list
                  \* files name, and of new posts the servers send
    loop,         \* the event loop: "running", "exited" (main raised), "hung"
    main_pc,      \* main: "users" (loading the user list), "stats"
    users,        \* the UserConnection objects, in list order
    streams,      \* the server_stream tasks: where each is, and its get_next
    posts,        \* keys of the dedup dict
    posts_order,  \* insertion order of the dedup dict
    total,
    post_count,
    servers,      \* per-server counts since the last report
    call          \* a call of getfield or getlist on its own: its arguments
                  \* and what it returns (NoCall in a run of main)

vars == <<args, loop, main_pc, users, streams, posts, posts_order, total,
          post_count, servers, call>>

\* No call of the field extractor on its own.
NoCall ==
    [op |-> "none", tokens |-> <<>>, data |-> <<>>, offset |-> 0,
     state |-> "none", value |-> None, next |-> None, items |-> <<>>]

\* The state when main starts, the list files naming nusers users and nservers
\* servers, in a run where the servers send nposts new posts.
Start(nusers, nservers, nposts) ==
    /\ args = [users |-> nusers, servers |-> nservers, posts |-> nposts]
    /\ loop = "running"
    /\ main_pc = "users"
    /\ users = <<>>
    /\ streams = <<>>
    /\ posts = {}
    /\ posts_order = <<>>
    /\ total = 0
    /\ post_count = 0
    /\ servers = [h \in {} |-> 0]
    /\ call = NoCall

(***************************************************************************)
(* UserConnection                                                          *)
(***************************************************************************)

\* The tag loop of followed_tags from an offset into the line.
RECURSIVE followed_tags_loop(_, _, _)
followed_tags_loop(chunk, offset, tags) ==
    LET f == getfield(chunk, NAME_LABEL, offset)
    IN  IF f[1] # None
        THEN followed_tags_loop(chunk, Val(f[2]), tags \cup {Lower(Val(f[1]))})
        ELSE tags

\* followed_tags on the first line of the response: None for an empty read.
followed_tags(chunk) ==
    IF Len(chunk) = 0 THEN None ELSE Some(followed_tags_loop(chunk, 0, {}))

\* UserConnection.__init__ and update(), once the first fetch has answered.
NewUser(chunk) ==
    [tags |-> followed_tags(chunk), posts |-> <<>>,
     follower |-> "sleep", sender |-> "get", post_url |-> None]

\* main's user loop: one more user, its first tag fetch answered with chunk.
MainAddUser(chunk) ==
    /\ loop = "running"
    /\ main_pc = "users"
    /\ Len(users) < args.users
    /\ users' = Append(users, NewUser(chunk))
    /\ UNCHANGED <<args, call, loop, main_pc, streams, posts, posts_order, total,
                   post_count, servers>>

\* The first tag fetch of a user raises: main raises and the loop exits.
MainAddUserFail ==
    /\ loop = "running"
    /\ main_pc = "users"
    /\ Len(users) < args.users
    /\ loop' = "exited"
    /\ UNCHANGED <<args, call, main_pc, users, streams, posts, posts_order, total,
                   post_count, servers>>

\* update_tags: the sleep is over and the fetch answered with chunk.
update_tags(u, chunk) ==
    /\ loop = "running"
    /\ u \in 1..Len(users)
    /\ users[u].follower = "sleep"
    /\ users' = [users EXCEPT ![u].tags = followed_tags(chunk)]
    /\ UNCHANGED <<args, call, loop, main_pc, streams, posts, posts_order, total,
                   post_count, servers>>

\* update_tags: the fetch raises, and the task ends with the exception.
update_tags_raise(u) ==
    /\ loop = "running"
    /\ u \in 1..Len(users)
    /\ users[u].follower = "sleep"
    /\ users' = [users EXCEPT ![u].follower = "ended"]
    /\ UNCHANGED <<args, call, loop, main_pc, streams, posts, posts_order, total,
                   post_count, servers>>

\* send_posts taking the url put on the queue last.
send_posts_get_newest(u) ==
    /\ loop = "running"
    /\ u \in 1..Len(users)
    /\ users[u].sender = "get"
    /\ users[u].posts # <<>>
    /\ users' = [users EXCEPT ![u].posts = SubSeq(@, 1, Len(@) - 1),
                              ![u].post_url = Some(users[u].posts[Len(users[u].posts)]),
                              ![u].sender = "search"]
    /\ UNCHANGED <<args, call, loop, main_pc, streams, posts, posts_order, total,
                   post_count, servers>>

\* send_posts: posts.get() returns the head of the queue and search() is called.
send_posts_get(u) ==
    /\ loop = "running"
    /\ u \in 1..Len(users)
    /\ users[u].sender = "get"
    /\ users[u].posts # <<>>
    /\ users' = [users EXCEPT ![u].posts = Tail(@),
                              ![u].post_url = Some(Head(users[u].posts)),
                              ![u].sender = "search"]
    /\ UNCHANGED <<args, call, loop, main_pc, streams, posts, posts_order, total,
                   post_count, servers>>

\* search() has read the response to its end.
search_done(u) ==
    /\ loop = "running"
    /\ u \in 1..Len(users)
    /\ users[u].sender = "search"
    /\ users' = [users EXCEPT ![u].sender = "get", ![u].post_url = None]
    /\ UNCHANGED <<args, call, loop, main_pc, streams, posts, posts_order, total,
                   post_count, servers>>

\* search() raises (refused, timed out, reset): send_posts ends with the exception.
search_raise(u) ==
    /\ loop = "running"
    /\ u \in 1..Len(users)
    /\ users[u].sender = "search"
    /\ users' = [users EXCEPT ![u].sender = "ended", ![u].post_url = None]
    /\ UNCHANGED <<args, call, loop, main_pc, streams, posts, posts_order, total,
                   post_count, servers>>

(***************************************************************************)
(* process_update                                                          *)
(***************************************************************************)

\* queue_post of user u, when its tags are a set: put the url if a tag matches.
queue_post(us, u, tags, url) ==
    IF Val(us[u].tags) \cap tags # {}
    THEN [us EXCEPT ![u].posts = Append(@, url)]
    ELSE us

\* The loop over users from user u on. A user whose tags are None makes
\* queue_post raise, which ends the loop (process_update catches it).
RECURSIVE route(_, _, _, _)
route(us, u, tags, url) ==
    IF u > Len(us) THEN us
    ELSE IF us[u].tags = None THEN us
    ELSE route(queue_post(us, u, tags, url), u + 1, tags, url)

\* evict, deleting no key of the dict.
RECURSIVE evict_keeps_keys(_, _)
evict_keeps_keys(keys, order) ==
    IF Len(order) > DUPLICATE_HISTORY_LENGTH
    THEN evict_keeps_keys(keys, Tail(order))
    ELSE <<keys, order>>

\* evict, popping the newest url instead of the oldest.
RECURSIVE evict_newest(_, _)
evict_newest(keys, order) ==
    IF Len(order) > DUPLICATE_HISTORY_LENGTH
    THEN evict_newest(keys \ {order[Len(order)]}, SubSeq(order, 1, Len(order) - 1))
    ELSE <<keys, order>>

\* The eviction loop of the dedup history: while the order list is longer than
\* the limit, pop its first url and delete that key. <<keys, order>>.
RECURSIVE evict(_, _)
evict(keys, order) ==
    IF Len(order) > DUPLICATE_HISTORY_LENGTH
    THEN evict(keys \ {Head(order)}, Tail(order))
    ELSE <<keys, order>>

\* count_server, setting the count of the server to 1 also when it has one.
count_server_reset(counts, server) ==
    [h \in DOMAIN counts \cup {server} |-> IF h = server THEN 1 ELSE counts[h]]

\* The per-server count: one more for a server that has a count, 1 for one
\* that has none.
count_server(counts, server) ==
    [h \in DOMAIN counts \cup {server} |->
        IF h \in DOMAIN counts
        THEN counts[h] + (IF h = server THEN 1 ELSE 0)
        ELSE 1]

\* url[8:].split(b"/")[0]
server_of(url) ==
    LET rest == Slice(url, 8, Len(url))
        slash == Find(rest, <<"/">>, 0, Len(rest))
    IN  IF slash = -1 THEN rest ELSE Slice(rest, 0, slash)

\* getfield, getlist and the slice are pure: their values on the lines the
\* servers send, each computed once.
uri_field == [d \in Payloads |-> getfield(d, URI_LABEL, 0)[1]]

tags_list == [d \in Payloads |-> getlist(d, TAGS_LABEL)]

line_data == [l \in Lines |-> Slice(l, 5, Len(l))]

\* accepted, without the look-up in the dedup dict.
accepted_any(data) == uri_field[data] # None

\* The url of a payload that process_update goes on with: not None and not in
\* the dedup dict.
accepted(data) ==
    LET url == uri_field[data]
    IN  url # None /\ Val(url) \notin posts

\* The tag set process_update builds from a payload whose entries all have names.
tags_of(data) == {Lower(Val(t)) : t \in SeqToSet(tags_list[data].items)}

\* process_update(data), run to its end without a suspension (no await in it
\* suspends: the queues are unbounded).
process_update(data) ==
    LET url == Val(uri_field[data])
        kept == evict(posts \cup {url}, Append(posts_order, url))
        server == server_of(url)
        list == tags_list[data]
    IN  IF ~accepted(data)
        THEN UNCHANGED <<loop, users, posts, posts_order, total, post_count, servers>>
        ELSE /\ total < args.posts
             /\ posts' = kept[1]
             /\ posts_order' = kept[2]
             /\ total' = total + 1
             /\ servers' = count_server(servers, server)
             /\ post_count' = post_count + 1
             /\ IF list.hangs
                THEN loop' = "hung" /\ UNCHANGED users
                ELSE /\ loop' = loop
                     /\ IF None \in SeqToSet(list.items)
                        THEN UNCHANGED users  \* None.decode() raises, caught
                        ELSE IF tags_of(data) = {}
                        THEN UNCHANGED users
                        ELSE users' = route(users, 1, tags_of(data), url)

(***************************************************************************)
(* server_stream                                                           *)
(***************************************************************************)

Stream(pc, get_next) == [pc |-> pc, get_next |-> get_next]

\* MainStartStreams, the server loop coming before the user loop has ended.
MainStartStreams_early ==
    /\ loop = "running"
    /\ main_pc = "users"
    /\ streams = <<>>
    /\ main_pc' = IF Len(users) = args.users THEN "stats" ELSE "users"
    /\ streams' = [s \in 1..args.servers |-> Stream("Connecting", FALSE)]
    /\ UNCHANGED <<args, call, loop, users, posts, posts_order, total, post_count,
                   servers>>

\* main's server loop: every server_stream task is created, none has run yet.
MainStartStreams ==
    /\ loop = "running"
    /\ main_pc = "users"
    /\ Len(users) = args.users
    /\ main_pc' = "stats"
    /\ streams' = [s \in 1..args.servers |-> Stream("Connecting", FALSE)]
    /\ UNCHANGED <<args, call, loop, users, posts, posts_order, total, post_count,
                   servers>>

\* session.get answers: connected, get_next = False.
Connect(s) ==
    /\ loop = "running"
    /\ s \in 1..Len(streams)
    /\ streams[s].pc = "Connecting"
    /\ streams' = [streams EXCEPT ![s] = Stream("Connected", FALSE)]
    /\ UNCHANGED <<args, call, loop, main_pc, users, posts, posts_order, total,
                   post_count, servers>>

\* session.get raises (refused, connect timeout).
ConnectFail(s) ==
    /\ loop = "running"
    /\ s \in 1..Len(streams)
    /\ streams[s].pc = "Connecting"
    /\ streams' = [streams EXCEPT ![s] = Stream("Error", FALSE)]
    /\ UNCHANGED <<args, call, loop, main_pc, users, posts, posts_order, total,
                   post_count, servers>>

\* ReadLine, leaving get_next set after process_update has returned.
ReadLine_keeps_flag(s, chunk) ==
    /\ loop = "running"
    /\ s \in 1..Len(streams)
    /\ streams[s].pc = "Connected"
    /\ LET get_next == (chunk = EVENT_UPDATE) \/ streams[s].get_next
       IN  /\ streams' = [streams EXCEPT ![s] = Stream("Connected", get_next)]
           /\ IF Slice(chunk, 0, 5) = DATA_PREFIX /\ get_next
              THEN process_update(line_data[chunk])
              ELSE UNCHANGED <<loop, users, posts, posts_order, total, post_count,
                               servers>>
    /\ UNCHANGED <<args, call, main_pc>>

\* readline returns a line: the marker sets get_next, a data line with get_next
\* set is processed and, once process_update has returned, clears it.
ReadLine(s, chunk) ==
    /\ loop = "running"
    /\ s \in 1..Len(streams)
    /\ streams[s].pc = "Connected"
    /\ LET get_next == (chunk = EVENT_UPDATE) \/ streams[s].get_next
       IN  IF Slice(chunk, 0, 5) = DATA_PREFIX /\ get_next
           THEN /\ process_update(line_data[chunk])
                /\ streams' = IF loop' = "hung"
                              THEN [streams EXCEPT ![s] = Stream("Connected", get_next)]
                              ELSE [streams EXCEPT ![s] = Stream("Connected", FALSE)]
           ELSE /\ streams' = [streams EXCEPT ![s] = Stream("Connected", get_next)]
                /\ UNCHANGED <<loop, users, posts, posts_order, total, post_count,
                               servers>>
    /\ UNCHANGED <<args, call, main_pc>>

\* readline returns no bytes: the stream has ended.
ReadEnd(s) ==
    /\ loop = "running"
    /\ s \in 1..Len(streams)
    /\ streams[s].pc = "Connected"
    /\ streams' = [streams EXCEPT ![s] = Stream("Closed", FALSE)]
    /\ UNCHANGED <<args, call, loop, main_pc, users, posts, posts_order, total,
                   post_count, servers>>

\* readline raises (reset, payload error).
ReadRaise(s) ==
    /\ loop = "running"
    /\ s \in 1..Len(streams)
    /\ streams[s].pc = "Connected"
    /\ streams' = [streams EXCEPT ![s] = Stream("Error", FALSE)]
    /\ UNCHANGED <<args, call, loop, main_pc, users, posts, posts_order, total,
                   post_count, servers>>

\* After the except block or the end of the read loop: the reconnect sleep.
Wait(s) ==
    /\ loop = "running"
    /\ s \in 1..Len(streams)
    /\ streams[s].pc \in {"Error", "Closed"}
    /\ streams' = [streams EXCEPT ![s] = Stream("Waiting", FALSE)]
    /\ UNCHANGED <<args, call, loop, main_pc, users, posts, posts_order, total,
                   post_count, servers>>

\* The sleep is over: the outer loop starts again.
Reconnect(s) ==
    /\ loop = "running"
    /\ s \in 1..Len(streams)
    /\ streams[s].pc = "Waiting"
    /\ streams' = [streams EXCEPT ![s] = Stream("Connecting", FALSE)]
    /\ UNCHANGED <<args, call, loop, main_pc, users, posts, posts_order, total,
                   post_count, servers>>

(***************************************************************************)
(* main's report loop                                                      *)
(***************************************************************************)

top_servers ==
    /\ loop = "running"
    /\ main_pc = "stats"
    /\ servers' = [h \in {} |-> 0]
    /\ post_count' = 0
    /\ UNCHANGED <<args, call, loop, main_pc, users, streams, posts, posts_order,
                   total>>

(***************************************************************************)
(* Specification                                                           *)
(***************************************************************************)

\* New posts the servers send in a run with two users.
RoutePosts == 2

\* The runs checked, <<users, servers, new posts>>: one user on one stream
\* that fills the dedup history and evicts once, and two streams without
\* users that evict twice.
Configs ==
    {<<1, 1, DUPLICATE_HISTORY_LENGTH + 1>>, <<0, 2, DUPLICATE_HISTORY_LENGTH + 2>>}

RouteConfigs == {<<2, 1, RoutePosts>>}

Init == \E c \in Configs : Start(c[1], c[2], c[3])

Next ==
    \/ \E chunk \in TagResponses : MainAddUser(chunk)
    \/ MainAddUserFail
    \/ MainStartStreams
    \/ \E u \in 1..args.users, chunk \in TagResponses : update_tags(u, chunk)
    \/ \E u \in 1..args.users : update_tags_raise(u)
    \/ \E u \in 1..args.users : send_posts_get(u)
    \/ \E u \in 1..args.users : search_done(u)
    \/ \E u \in 1..args.users : search_raise(u)
    \/ \E s \in 1..args.servers : Connect(s)
    \/ \E s \in 1..args.servers : ConnectFail(s)
    \/ \E s \in 1..args.servers, chunk \in Lines : ReadLine(s, chunk)
    \/ \E s \in 1..args.servers : ReadEnd(s)
    \/ \E s \in 1..args.servers : ReadRaise(s)
    \/ \E s \in 1..args.servers : Wait(s)
    \/ \E s \in 1..args.servers : Reconnect(s)
    \/ top_servers

Spec == Init /\ [][Next]_vars

\* Two users on one stream that stays connected: the actions that read or
\* write a user's tags, queue and sender.
RouteInit == \E c \in RouteConfigs : Start(c[1], c[2], c[3])

RouteNext ==
    \/ \E chunk \in TagResponses : MainAddUser(chunk)
    \/ MainStartStreams
    \/ \E u \in 1..args.users, chunk \in TagResponses : update_tags(u, chunk)
    \/ \E u \in 1..args.users : send_posts_get(u)
    \/ \E u \in 1..args.users : search_done(u)
    \/ \E u \in 1..args.users : search_raise(u)
    \/ \E s \in 1..args.servers : Connect(s)
    \/ \E s \in 1..args.servers, chunk \in Lines : ReadLine(s, chunk)

RouteSpec == RouteInit /\ [][RouteNext]_vars

\* One user on two streams that stay connected and carry the same posts, as
\* many new ones as the dedup history holds: the actions that ingest a
\* payload or take a url off the user's queue.
DupConfigs == {<<1, 2, DUPLICATE_HISTORY_LENGTH>>}

DupInit == \E c \in DupConfigs : Start(c[1], c[2], c[3])

DupNext ==
    \/ \E chunk \in TagResponses : MainAddUser(chunk)
    \/ MainStartStreams
    \/ \E u \in 1..args.users : send_posts_get(u)
    \/ \E u \in 1..args.users : search_done(u)
    \/ \E s \in 1..args.servers : Connect(s)
    \/ \E s \in 1..args.servers, chunk \in Lines : ReadLine(s, chunk)

DupSpec == DupInit /\ [][DupNext]_vars

(***************************************************************************)
(* The field extractor on its own: getfield and getlist are pure, and a    *)
(* run is one call of one of them on a buffer made of a few tokens.        *)
(***************************************************************************)

\* The longest buffer, in tokens, and the highest offset given to getfield.
MaxTokens == 5

MaxOffset == 1

FieldTokens == {"NAME", "NULL", "QA", "SP", "COMMA"}

ListTokens ==
    {"OPEN", "TAGS", "CLOSE", "EA", "EB", "ENONAME", "ENULL", "EOPEN", "COMMA"}

\* The bytes of a token.
Bytes(tok) ==
    CASE tok = "NAME" -> NAME_LABEL
      [] tok = "NULL" -> NULL_LITERAL
      [] tok = "QA" -> <<"\"","a","\"">>
      [] tok = "SP" -> <<" ">>
      [] tok = "COMMA" -> <<",">>
      [] tok = "TAGS" -> TAGS_LABEL
      [] tok = "OPEN" -> TAGS_LABEL \o <<"[">>
      [] tok = "CLOSE" -> <<"]">>
      [] tok = "EA" -> <<"{">> \o NAME_LABEL \o <<"\"","a","\"","}">>
      [] tok = "EB" -> <<"{">> \o NAME_LABEL \o <<"\"","b","\"","}">>
      [] tok = "ENONAME" -> <<"{","\"","i","d","\"",":","\"","1","\"","}">>
      [] tok = "ENULL" -> <<"{">> \o NAME_LABEL \o NULL_LITERAL \o <<"}">>
      [] tok = "EOPEN" -> <<"{">> \o NAME_LABEL \o <<"\"","a","\"">>

\* The buffer a sequence of tokens spells.
RECURSIVE Concat(_)
Concat(toks) ==
    IF toks = <<>> THEN <<>> ELSE Bytes(Head(toks)) \o Concat(Tail(toks))

TokenSeqs(T) == UNION {[1..k -> T] : k \in 0..MaxTokens}

\* A call about to be made.
Call(op, toks, offset) ==
    [op |-> op, tokens |-> toks, data |-> Concat(toks), offset |-> offset,
     state |-> "pending", value |-> None, next |-> None, items |-> <<>>]

\* The calls of getfield, and of getlist, on the buffers of at most MaxTokens
\* tokens.
FieldCalls(offsets) ==
    {Call("getfield", toks, o) : toks \in TokenSeqs(FieldTokens), o \in offsets}

ListCalls(offsets) ==
    {Call("getlist", toks, o) : toks \in TokenSeqs(ListTokens), o \in offsets}

ParseInit ==
    /\ args = [users |-> 0, servers |-> 0, posts |-> 0]
    /\ loop = "running"
    /\ main_pc = "users"
    /\ users = <<>>
    /\ streams = <<>>
    /\ posts = {}
    /\ posts_order = <<>>
    /\ total = 0
    /\ post_count = 0
    /\ servers = [h \in {} |-> 0]
    /\ call \in FieldCalls(0..MaxOffset) \cup ListCalls({0})

\* getfield(data, b"\"name\":", offset) returns.
call_getfield ==
    /\ call.op = "getfield"
    /\ call.state = "pending"
    /\ LET r == getfield(call.data, NAME_LABEL, call.offset)
       IN  call' = [call EXCEPT !.state = "returned", !.value = r[1], !.next = r[2]]
    /\ UNCHANGED <<args, loop, main_pc, users, streams, posts, posts_order,
                   total, post_count, servers>>

\* getlist(data, b"\"tags\":") returns its items, or is in its loop for good.
call_getlist ==
    /\ call.op = "getlist"
    /\ call.state = "pending"
    /\ LET r == getlist(call.data, TAGS_LABEL)
       IN  call' = IF r.hangs
                   THEN [call EXCEPT !.state = "looping"]
                   ELSE [call EXCEPT !.state = "returned", !.items = r.items]
    /\ UNCHANGED <<args, loop, main_pc, users, streams, posts, posts_order,
                   total, post_count, servers>>

ParseNext == call_getfield \/ call_getlist

ParseSpec == ParseInit /\ [][ParseNext]_vars

(***************************************************************************)
(* Fairness: a sleep ends, a connect attempt answers or times out, a       *)
(* search or tag fetch answers or raises within the client timeout, and a  *)
(* get on a non-empty queue returns. A read of a stream has no timeout, so *)
(* nothing is assumed of it.                                               *)
(***************************************************************************)

AllUsers == UNION {1..c[1] : c \in Configs \cup RouteConfigs \cup DupConfigs}

AllServers == UNION {1..c[2] : c \in Configs \cup RouteConfigs \cup DupConfigs}

Fairness ==
    /\ WF_vars(\E chunk \in TagResponses : MainAddUser(chunk))
    /\ WF_vars(MainStartStreams)
    /\ \A u \in AllUsers : WF_vars(send_posts_get(u))
    /\ \A u \in AllUsers : WF_vars(search_done(u) \/ search_raise(u))
    /\ \A s \in AllServers : WF_vars(Connect(s) \/ ConnectFail(s))
    /\ \A s \in AllServers : WF_vars(Wait(s))
    /\ \A s \in AllServers : WF_vars(Reconnect(s))

FairSpec == Spec /\ Fairness

(***************************************************************************)
(* Claims                                                                  *)
(***************************************************************************)

Last(s) == s[Len(s)]

\* The last n elements of s (all of s when it is shorter).
LastN(s, n) == IF Len(s) <= n THEN s ELSE SubSeq(s, Len(s) - n + 1, Len(s))

\* Payloads with a uri, and the uri.
WithUri == {p \in Payloads : uri_field[p] # None}

Uri(p) == Val(uri_field[p])

\* Stream s reads the data line of payload p while its get_next is set: the
\* payload is handed to process_update.
HandOff(s, p) ==
    /\ s \in 1..Len(streams)
    /\ streams[s].get_next
    /\ ReadLine(s, DATA_PREFIX \o p)

\* C2: in every reachable state the keys of posts are the elements of
\* posts_order, posts_order has no repeated element, and both hold at most
\* DUPLICATE_HISTORY_LENGTH urls.
C2_DedupSizeInvariant ==
    /\ posts = SeqToSet(posts_order)
    /\ \A i, j \in 1..Len(posts_order) : posts_order[i] = posts_order[j] => i = j
    /\ Cardinality(posts) = Len(posts_order)
    /\ Len(posts_order) <= DUPLICATE_HISTORY_LENGTH

\* Two stream workers have filled the history and a url has been evicted.
C2_Witness ==
    /\ Len(streams) = 2
    /\ total > DUPLICATE_HISTORY_LENGTH
    /\ Len(posts_order) = DUPLICATE_HISTORY_LENGTH

\* C3: whenever a payload with a uri is handed to process_update, a uri in the
\* history leaves the history as it is (its place does not change), and a uri
\* not in it, also one evicted before, is counted and appended, the history
\* then being the DUPLICATE_HISTORY_LENGTH last inserted urls in insertion
\* order; nothing else changes the history, and it is full once
\* DUPLICATE_HISTORY_LENGTH urls have been inserted.
C3_FifoEviction ==
    [][/\ \A s \in AllServers, p \in WithUri :
            HandOff(s, p) =>
                IF Uri(p) \in posts
                THEN posts_order' = posts_order /\ total' = total
                ELSE /\ posts_order' =
                            LastN(Append(posts_order, Uri(p)), DUPLICATE_HISTORY_LENGTH)
                     /\ total' = total + 1
       /\ posts_order' # posts_order => total' = total + 1
       /\ total' >= DUPLICATE_HISTORY_LENGTH =>
              Len(posts_order') = DUPLICATE_HISTORY_LENGTH
      ]_vars

\* Urls of the payloads whose uri names host h.
UrisOf(h) == {Uri(p) : p \in {q \in WithUri : server_of(Uri(q)) = h}}

\* Since the last report a host has had more posts counted than the streams
\* carry urls of it, the history being full: a url was evicted and then
\* inserted again.
C3_Witness ==
    /\ Len(posts_order) = DUPLICATE_HISTORY_LENGTH
    /\ total > DUPLICATE_HISTORY_LENGTH + 1
    /\ \E h \in DOMAIN servers : servers[h] > Cardinality(UrisOf(h))

\* Payloads process_update builds a non-empty tag set from.
Routable ==
    {p \in WithUri : /\ ~tags_list[p].hangs
                     /\ None \notin SeqToSet(tags_list[p].items)
                     /\ tags_of(p) # {}}

\* User u follows one of the tags.
Follows(u, tags) == users[u].tags # None /\ Val(users[u].tags) \cap tags # {}

\* C1: whenever process_update accepts a new post with a non-empty tag set,
\* every user who follows one of its tags has its url appended to its queue
\* once, and the queue of every other user is left as it is.
C1_FanOut ==
    [][\A s \in 1..Len(streams), p \in Routable :
          (HandOff(s, p) /\ Uri(p) \notin posts) =>
              \A u \in 1..Len(users) :
                  users'[u].posts = IF Follows(u, tags_of(p))
                                    THEN Append(users[u].posts, Uri(p))
                                    ELSE users[u].posts
      ]_vars

\* C4: a stream worker whose connection attempt or read has failed, or whose
\* stream has ended, is eventually connecting again.
C4_Reconnects ==
    \A s \in AllServers :
        (s \in 1..Len(streams) /\ streams[s].pc \in {"Error", "Closed"})
            ~> (s \in 1..Len(streams) /\ streams[s].pc = "Connecting")

\* C5: whenever a stream worker hands a payload with a new uri to
\* process_update and a user follows one of its tags, lower-cased, the url is
\* then on that user's queue once and the user's sender is running, so that
\* the search call for it is made.
C5_EndToEnd ==
    [][\A s \in 1..Len(streams), p \in Routable, u \in 1..Len(users) :
          (HandOff(s, p) /\ Uri(p) \notin posts /\ Follows(u, tags_of(p))) =>
              /\ Cardinality({i \in 1..Len(users'[u].posts) :
                                  users'[u].posts[i] = Uri(p)}) = 1
              /\ users'[u].sender # "ended"
      ]_vars

\* Answers to the followed-tags call that carry no tags: an empty read and an
\* error body.
FailedResponses == {<<>>, Tags_error}

\* C6: a refresh that is answered with an empty read or an error body leaves
\* the user's tags as they were, and they are a set.
C6_RefreshKeepsTags ==
    [][\A u \in 1..Len(users), chunk \in FailedResponses :
          update_tags(u, chunk) =>
              users'[u].tags = users[u].tags /\ users'[u].tags # None
      ]_vars

\* C7: the tag refresher of a user never ends.
C7_RefresherRuns == \A u \in 1..Len(users) : users[u].follower # "ended"

\* C8: the sender of a user never ends.
C8_SenderRuns == \A u \in 1..Len(users) : users[u].sender # "ended"

\* C9: whenever process_update accepts a new post, a user v who follows one of
\* its tags has the url put on its queue, whatever the state of the other
\* users before or after v in the list.
C9_Isolation ==
    [][\A s \in 1..Len(streams), p \in Routable, v \in 1..Len(users) :
          (HandOff(s, p) /\ Uri(p) \notin posts /\ Follows(v, tags_of(p))) =>
              /\ Len(users'[v].posts) = Len(users[v].posts) + 1
              /\ Last(users'[v].posts) = Uri(p)
      ]_vars

\* C10: the queue of a user changes only by a url appended at its end or by its
\* first url taken off, and a search call starts only with the url taken off:
\* the search calls of a user are made in the order the urls were put on its
\* queue, one for each, however many urls wait.
C10_FifoDelivery ==
    [][\A u \in 1..Len(users) :
          LET old == users[u]
              new == users'[u]
          IN  \/ /\ new.posts = old.posts
                 /\ new.sender = "search" => old.sender = "search"
                 /\ new.post_url \in {old.post_url, None}
              \/ /\ \E p \in WithUri : new.posts = Append(old.posts, Uri(p))
                 /\ new.sender = old.sender
                 /\ new.post_url = old.post_url
              \/ /\ old.posts # <<>>
                 /\ old.sender = "get"
                 /\ new.posts = Tail(old.posts)
                 /\ new.sender = "search"
                 /\ new.post_url = Some(Head(old.posts))
      ]_vars

\* Two urls wait on the first user's queue while the second user's sender is
\* in the search call for the first of its two urls.
C10_Witness ==
    /\ Len(users) = 2
    /\ Len(users[1].posts) = 2
    /\ users[2].sender = "search"
    /\ Len(users[2].posts) = 1
    /\ users[2].post_url # Some(users[2].posts[1])

\* C11: while the sender of a user a is in a search call, a new post that
\* another user b follows is put at the end of b's queue in the step that
\* ingests it, however many urls wait on the queues, and the step waits for no
\* sender: no sender moves in it.
C11_NoBlocking ==
    [][\A s \in 1..Len(streams), p \in Routable, a, b \in 1..Len(users) :
          (/\ a # b
           /\ users[a].sender = "search"
           /\ HandOff(s, p)
           /\ Uri(p) \notin posts
           /\ Follows(b, tags_of(p))) =>
              /\ users'[b].posts = Append(users[b].posts, Uri(p))
              /\ \A u \in 1..Len(users) :
                     /\ users'[u].sender = users[u].sender
                     /\ users'[u].post_url = users[u].post_url
      ]_vars

\* Payloads with a uri whose tag list is the empty list.
EmptyTagged ==
    {p \in WithUri : Find(p, TAGS_LABEL \o EMPTY_LIST, 0, Len(p)) # -1}

\* C12: whenever process_update accepts a new post whose tag list is empty, no
\* user's queue, tags or sender changes, the url is the newest of the dedup
\* history, and the post count, the total and the count of the url's server
\* each go up by one, no other server's count changing.
C12_EmptyTags ==
    [][\A s \in 1..Len(streams), p \in EmptyTagged :
          (HandOff(s, p) /\ Uri(p) \notin posts) =>
              LET h == server_of(Uri(p))
              IN  /\ users' = users
                  /\ Uri(p) \in posts'
                  /\ Last(posts_order') = Uri(p)
                  /\ post_count' = post_count + 1
                  /\ total' = total + 1
                  /\ DOMAIN servers' = DOMAIN servers \cup {h}
                  /\ servers'[h] = (IF h \in DOMAIN servers THEN servers[h] ELSE 0) + 1
                  /\ \A g \in DOMAIN servers \ {h} : servers'[g] = servers[g]
      ]_vars

\* A user follows tags, and the posts ingested since the last report are one
\* with tags and then, from the same server, the one with the empty tag list:
\* the server's count is 2 and the empty-tagged url is on no queue.
C12_Witness ==
    /\ Len(users) = 1
    /\ users[1].tags = Some({<<"a">>, <<"b">>})
    /\ posts_order = <<Uri(Payload4), Uri(Payload3)>>
    /\ total = 2
    /\ post_count = 2
    /\ servers[server_of(Uri(Payload3))] = 2
    /\ Uri(Payload3) \notin SeqToSet(users[1].posts)
    /\ users[1].post_url # Some(Uri(Payload3))

\* C13: whatever payload a stream worker hands to process_update, and whatever
\* goes wrong in processing it, the step ends with the event loop running and
\* the worker connected with get_next cleared, ready to read the next line.
C13_Containment ==
    [][\A s \in 1..Len(streams), p \in Payloads :
          HandOff(s, p) =>
              /\ loop' = "running"
              /\ streams'[s] = Stream("Connected", FALSE)
      ]_vars

\* The offset in the buffer at which token i of toks begins.
Pos(toks, i) == Len(Concat(SubSeq(toks, 1, i - 1)))

Min(S) == CHOOSE x \in S : \A y \in S : x <= y

\* C14: getfield returns (None, None) when the label does not occur at or
\* after the offset and when the value of its first occurrence there is the
\* null literal, and returns the string and the offset past its closing quote
\* when the value is a quoted string; white space may stand between the label
\* and the value, as JSON allows.
C14_Getfield ==
    (call.op = "getfield" /\ call.state = "returned") =>
        LET toks == call.tokens
            labels == {i \in 1..Len(toks) :
                          toks[i] = "NAME" /\ Pos(toks, i) >= call.offset}
            values == {j \in Min(labels) + 1..Len(toks) : toks[j] # "SP"}
        IN  IF labels = {} THEN call.value = None /\ call.next = None
            ELSE IF values = {} THEN TRUE
            ELSE CASE toks[Min(values)] = "NULL" ->
                          call.value = None /\ call.next = None
                   [] toks[Min(values)] = "QA" ->
                          /\ call.value = Some(<<"a">>)
                          /\ call.next = Some(Pos(toks, Min(values)) + 3)
                   [] OTHER -> TRUE

\* The entries of a list buffer: the tokens between its first and last.
Entries(toks) == SubSeq(toks, 2, Len(toks) - 1)

\* "tags":[ ... ] with entries that have a name, commas between them.
WellFormedList(toks) ==
    /\ Len(toks) >= 2
    /\ toks[1] = "OPEN"
    /\ toks[Len(toks)] = "CLOSE"
    /\ LET es == Entries(toks)
       IN  /\ es # <<>> => Len(es) % 2 = 1
           /\ \A i \in 1..Len(es) :
                  IF i % 2 = 1 THEN es[i] \in {"EA", "EB"} ELSE es[i] = "COMMA"

\* The names of the entries of a well-formed list, in order.
Names(toks) ==
    LET es == Entries(toks)
    IN  [k \in 1..(Len(es) + 1) \div 2 |->
            Some(IF es[2 * k - 1] = "EA" THEN <<"a">> ELSE <<"b">>)]

\* The malformed inputs: no label; a label with no opening bracket; no closing
\* bracket; an entry with no name, a null name or no closing brace.
MalformedList(toks) ==
    LET all == SeqToSet(toks)
    IN  \/ all \cap {"OPEN", "TAGS"} = {}
        \/ toks # <<>> /\ toks[1] = "TAGS" /\ "OPEN" \notin all
        \/ toks # <<>> /\ toks[1] = "OPEN" /\ "CLOSE" \notin all
        \/ /\ Len(toks) >= 3
           /\ toks[1] = "OPEN"
           /\ toks[Len(toks)] = "CLOSE"
           /\ SeqToSet(Entries(toks)) \cap {"ENONAME", "ENULL", "EOPEN"} # {}
           /\ SeqToSet(Entries(toks)) \cap {"OPEN", "TAGS", "CLOSE"} = {}

\* C15: what getlist returns is the empty list on a malformed input and the
\* names of the entries, in order, on a well-formed list: a list of strings
\* in both cases.
C15_Getlist ==
    (call.op = "getlist" /\ call.state = "returned") =>
        /\ None \notin SeqToSet(call.items)
        /\ MalformedList(call.tokens) => call.items = <<>>
        /\ WellFormedList(call.tokens) => call.items = Names(call.tokens)

\* C19: no call of getlist stays in its entry loop for good.
C19_Terminates == call.op = "getlist" => call.state # "looping"

\* The lines that begin with the data marker.
DataLines == {DATA_PREFIX \o p : p \in Payloads}

\* C16: get_next of a worker is false when a connection begins; reading the
\* update marker sets it; a data line read while it is set is processed by
\* process_update, which clears it on its return, and a data line read while
\* it is not set changes nothing; any other line leaves it and everything
\* else as they are.
C16_FrameFlag ==
    [][\A s \in 1..Len(streams') :
          /\ (/\ streams'[s].pc = "Connected"
              /\ (s \notin 1..Len(streams) \/ streams[s].pc # "Connected")) =>
                 ~streams'[s].get_next
          /\ \A l \in Lines :
                (s \in 1..Len(streams) /\ ReadLine(s, l)) =>
                    /\ \A t \in 1..Len(streams) \ {s} : streams'[t] = streams[t]
                    /\ streams'[s].pc = "Connected"
                    /\ IF l = EVENT_UPDATE
                       THEN /\ streams'[s].get_next
                            /\ UNCHANGED <<loop, users, posts, posts_order, total,
                                           post_count, servers>>
                       ELSE IF l \in DataLines /\ streams[s].get_next
                       THEN /\ process_update(line_data[l])
                            /\ loop' = "running" => ~streams'[s].get_next
                       ELSE /\ streams'[s].get_next = streams[s].get_next
                            /\ UNCHANGED <<loop, users, posts, posts_order, total,
                                           post_count, servers>>
      ]_vars

\* The one worker has read a marker and a data line, handed the payload to
\* process_update, which has counted it, and has its flag cleared while it is
\* still connected.
C16_Witness ==
    /\ Len(streams) = 1
    /\ streams[1] = Stream("Connected", FALSE)
    /\ loop = "running"
    /\ total = 1
    /\ post_count = 1

\* Payloads that process_update discards: the uri is the null literal or there
\* is none, or the uri is a key of the dedup dict.
NullUri ==
    {p \in Payloads : \/ Find(p, URI_LABEL, 0, Len(p)) = -1
                      \/ Find(p, URI_LABEL \o NULL_LITERAL, 0, Len(p)) # -1}

Duplicate(p) == p \notin NullUri /\ uri_field[p] # None /\ Val(uri_field[p]) \in posts

C18_AtomicIngest ==
    [][/\ total' <= DUPLICATE_HISTORY_LENGTH =>
              /\ Len(posts_order') = total'
              /\ Cardinality(posts') = total'
              /\ posts' = SeqToSet(posts_order')
       /\ \A s \in 1..Len(streams), p \in WithUri :
              HandOff(s, p) =>
                  /\ \A t \in 1..Len(streams) \ {s} : streams'[t] = streams[t]
                  /\ IF Uri(p) \in posts
                     THEN /\ total' = total
                          /\ post_count' = post_count
                          /\ servers' = servers
                          /\ users' = users
                     ELSE /\ total' = total + 1
                          /\ post_count' = post_count + 1
                          /\ \A u \in 1..Len(users) :
                                 \/ users'[u].posts = users[u].posts
                                 \/ users'[u].posts = Append(users[u].posts, Uri(p))
      ]_vars

\* Both workers are connected; the first has ingested a post, counted once and
\* waiting once on the user's queue, and the second has read the update
\* marker, the same post being among the data lines it may read next.
C18_Witness ==
    /\ Len(streams) = 2
    /\ Len(users) = 1
    /\ streams[1] = Stream("Connected", FALSE)
    /\ streams[2] = Stream("Connected", TRUE)
    /\ total = 1
    /\ posts_order = <<Uri(Payload4)>>
    /\ users[1].posts = <<Uri(Payload4)>>

\* C20: no server_stream task exists before every user of the list has been
\* added, its first tag fetch answered; once the tasks exist no user is added
\* or removed; so every payload handed to process_update meets the whole
\* list of users.
C20_StartupOrder ==
    [][/\ streams' # <<>> => Len(users') = args.users /\ main_pc' = "stats"
       /\ streams # <<>> => Len(users') = Len(users)
       /\ Len(users') >= Len(users)
       /\ \A s \in 1..Len(streams), p \in Payloads :
              HandOff(s, p) => Len(users) = args.users /\ Len(users') = args.users
      ]_vars

\* Both users of the list follow tags and a post ingested by the stream
\* worker has been put on the queue of each.
C20_Witness ==
    /\ args.users = 2
    /\ Len(users) = 2
    /\ Len(streams) = 1
    /\ total = 1
    /\ users[1].posts = <<Uri(Payload4)>>
    /\ users[2].posts = <<Uri(Payload4)>>

====
